---- MODULE Spec2Model ----
(***************************************************************************)
(* Job-Bot (run.py): scrape career pages, diff the postings against the    *)
(* seen_keys ledger of a spreadsheet, overwrite the new_jobs tab with the  *)
(* new postings and append them to the ledger.                             *)
(*                                                                         *)
(* Strings are sequences of tokens (a token is a piece of text that the    *)
(* program never splits); the empty string is << >>.  A worksheet is the   *)
(* sequence of its rows up to the last non-empty one, a row the sequence   *)
(* of its cells, an empty row << >>.                                       *)
(***************************************************************************)
EXTENDS Integers, Sequences, FiniteSets, TLC

\* ------------------------------------------------------------- bounds
\* runs of main() started in one behaviour
MaxRuns == 2
\* anchors on one rendered page
MaxAnchors == 2

\* the processes that may execute main()
Procs == {"r1", "r2"}

\* ------------------------------------------------------------ strings
WS == " "

RECURSIVE LStrip(_)
LStrip(s) == IF s # << >> /\ Head(s) = WS THEN LStrip(Tail(s)) ELSE s

RECURSIVE RStrip(_)
RStrip(s) ==
    IF s # << >> /\ s[Len(s)] = WS THEN RStrip(SubSeq(s, 1, Len(s) - 1)) ELSE s

\* str.strip()
Strip(s) == RStrip(LStrip(s))

\* number of characters of a token
TokLen(t) ==
    CASE t = WS -> 1
      [] t = "Dev" -> 3
      [] t = "Engineer" -> 8
      [] t = "Analyst" -> 7
      [] OTHER -> 6

RECURSIVE StrLen(_)
\* len(s)
StrLen(s) == IF s = << >> THEN 0 ELSE TokLen(Head(s)) + StrLen(Tail(s))

\* the patterns of scrape_generic that occur inside a token
PatternsIn(t) ==
    CASE t = "https://jobs.uber.com" -> {"http", "jobs.uber.com", "uber.com"}
      [] t = "https://www.uber.com" -> {"http", "uber.com"}
      [] t = "/careers/" -> {"/careers/"}
      [] t = "/job/" -> {"/job/"}
      [] t = "/jobs/" -> {"/jobs/", "jobs/"}
      [] t = "/search-results" -> {"search-results"}
      [] OTHER -> {}

\* pat in s
Contains(s, pat) == \E i \in 1..Len(s) : pat \in PatternsIn(s[i])

\* s.startswith("http")
StartsWithHttp(s) == s # << >> /\ "http" \in PatternsIn(s[1])

\* ---------------------------------------------------------- constants
NEW_TAB == "new_jobs"
SEEN_TAB == "seen_keys"
NEW_HEADERS ==
    << <<"detected_at">>, <<"company">>, <<"title">>, <<"location">>,
       <<"url">>, <<"source">>, <<"key">> >>
SEEN_HEADERS ==
    << <<"key">>, <<"first_seen_at">>, <<"company">>, <<"title">>,
       <<"location">>, <<"url">>, <<"source">> >>

Headers(t) == IF t = NEW_TAB THEN NEW_HEADERS ELSE SEEN_HEADERS

\* ------------------------------------------------------ pure functions
RECURSIVE Ticks(_)
Ticks(n) == IF n = 0 THEN << >> ELSE <<"'">> \o Ticks(n - 1)

\* iso_now(): the text of the instant now
iso_now(now) == <<"T">> \o Ticks(now)

\* hashlib.sha256(base).hexdigest()[:24]: a non-empty digest, taken to be
\* collision free (equal digests only for equal canonical strings)
Sha256Hex24(base) == <<"sha256:">> \o base

\* mutant: the instant of detection is part of the hashed string
BaseWithDetectedAt(job) ==
    job.detected_at \o <<"|">> \o job.company \o <<"|">> \o job.title \o <<"|">>
        \o job.location \o <<"|">> \o job.url \o <<"|">> \o job.source

\* mutant: the fields are joined without the delimiter
BaseNoDelimiter(job) ==
    job.company \o job.title \o job.location \o job.url \o job.source

\* the canonical string of make_key
Base(job) ==
    job.company \o <<"|">> \o job.title \o <<"|">> \o job.location
        \o <<"|">> \o job.url \o <<"|">> \o job.source

make_key(job) == Sha256Hex24(Base(job))

normalize(now, source, company, title, location, url) ==
    [detected_at |-> iso_now(now),
     source      |-> source,
     company     |-> company,
     title       |-> Strip(title),
     location    |-> Strip(location),
     url         |-> Strip(url)]

\* j["key"] = make_key(j)
WithKey(j) ==
    [detected_at |-> j.detected_at, source |-> j.source, company |-> j.company,
     title |-> j.title, location |-> j.location, url |-> j.url,
     key |-> make_key(j)]

\* ------------------------------------------------------ scrape_generic

\* mutant: no anchor is skipped for an empty href or a short text
CandidateNoSkip(a, src, now) ==
    LET href == a.href
        text == Strip(a.text)
    IN  IF src.name = "hellofresh" THEN
            IF Contains(href, "search-results") THEN << >>
            ELSE IF Contains(href, "/job/") \/ Contains(href, "jobId")
                    \/ Contains(href, "jobs/") THEN
                LET url == IF StartsWithHttp(href) THEN href
                           ELSE <<"https://careers.hellofresh.com">> \o href
                IN  << normalize(now, <<"hellofresh">>, src.company, text, << >>, url) >>
            ELSE << >>
        ELSE IF src.name = "uber" THEN
            IF Contains(href, "jobs.uber.com")
                  \/ (Contains(href, "/careers/") /\ Contains(href, "uber.com")) THEN
                << normalize(now, <<"uber">>, src.company, text, <<"Amsterdam, NL">>, href) >>
            ELSE << >>
        ELSE IF src.name = "booking" THEN
            IF Contains(href, "/jobs/") THEN
                LET url == IF StartsWithHttp(href) THEN href
                           ELSE <<"https://jobs.booking.com">> \o href
                IN  << normalize(now, <<"booking">>, src.company, text, <<"Amsterdam, NL">>, url) >>
            ELSE << >>
        ELSE << >>

\* the posting that one anchor yields, as a sequence of zero or one jobs
Candidate(a, src, now) ==
    LET href == a.href
        text == Strip(a.text)
    IN  IF href = << >> \/ StrLen(text) < 6 THEN << >>
        ELSE IF src.name = "hellofresh" THEN
            IF Contains(href, "search-results") THEN << >>
            ELSE IF Contains(href, "/job/") \/ Contains(href, "jobId")
                    \/ Contains(href, "jobs/") THEN
                LET url == IF StartsWithHttp(href) THEN href
                           ELSE <<"https://careers.hellofresh.com">> \o href
                IN  << normalize(now, <<"hellofresh">>, src.company, text, << >>, url) >>
            ELSE << >>
        ELSE IF src.name = "uber" THEN
            IF Contains(href, "jobs.uber.com")
                  \/ (Contains(href, "/careers/") /\ Contains(href, "uber.com")) THEN
                << normalize(now, <<"uber">>, src.company, text, <<"Amsterdam, NL">>, href) >>
            ELSE << >>
        ELSE IF src.name = "booking" THEN
            IF Contains(href, "/jobs/") THEN
                LET url == IF StartsWithHttp(href) THEN href
                           ELSE <<"https://jobs.booking.com">> \o href
                IN  << normalize(now, <<"booking">>, src.company, text, <<"Amsterdam, NL">>, url) >>
            ELSE << >>
        ELSE << >>

RECURSIVE Candidates(_, _, _)
\* the list jobs after the loop over the anchors
Candidates(anchors, src, now) ==
    IF anchors = << >> THEN << >>
    ELSE Candidate(Head(anchors), src, now) \o Candidates(Tail(anchors), src, now)

\* mutant: the first record stored under a url is kept
DictPutKeepFirst(acc, j) ==
    IF \E i \in 1..Len(acc) : acc[i].url = j.url THEN acc ELSE Append(acc, j)

\* uniq[j["url"]] = j on a dict that keeps insertion order
DictPut(acc, j) ==
    IF \E i \in 1..Len(acc) : acc[i].url = j.url
    THEN [i \in 1..Len(acc) |-> IF acc[i].url = j.url THEN j ELSE acc[i]]
    ELSE Append(acc, j)

RECURSIVE UniqFrom(_, _)
UniqFrom(acc, jobs) ==
    IF jobs = << >> THEN acc
    ELSE LET j == Head(jobs)
         IN  UniqFrom(IF j.url # << >> THEN DictPut(acc, j) ELSE acc, Tail(jobs))

\* list({j["url"]: j for j in jobs if j.get("url")}.values())
Uniq(jobs) == UniqFrom(<< >>, jobs)

\* what scrape_generic returns for the rendered page (its anchors)
scrape_generic(anchors, src, now) == Uniq(Candidates(anchors, src, now))

\* ---------------------------------------------------------- environment
\* sources.yaml: the ordered source lists the configuration file may hold
UberA == [name |-> "uber", company |-> <<"Uber">>, url |-> "uber/a"]
UberB == [name |-> "uber", company |-> <<"Uber">>, url |-> "uber/b"]
Hello == [name |-> "hellofresh", company |-> <<"HelloFresh">>, url |-> "hellofresh"]
Booking == [name |-> "booking", company |-> <<"Booking.com">>, url |-> "booking"]

SourceLists == { <<UberA, UberB>>, <<Hello, Booking>> }

\* the anchors the page at src["url"] may show
SiteAnchors(src) ==
    IF src.url = "uber/a" THEN
        { [href |-> <<"https://jobs.uber.com", "/1">>, text |-> <<"Engineer">>],
          [href |-> <<"https://jobs.uber.com", "/2">>, text |-> <<"Analyst">>] }
    ELSE IF src.url = "uber/b" THEN
        { [href |-> <<"https://jobs.uber.com", "/1">>, text |-> <<"Engineer">>],
          [href |-> <<"https://jobs.uber.com", "/1", WS>>, text |-> <<WS, "Analyst">>] }
    ELSE IF src.url = "hellofresh" THEN
        { [href |-> <<"/job/", "7">>, text |-> <<"Engineer">>],
          [href |-> <<"/search-results">>, text |-> <<"Engineer">>] }
    ELSE
        { [href |-> <<"/jobs/", "9">>, text |-> <<"Analyst", WS>>],
          [href |-> <<"/jobs/", "9">>, text |-> <<"Dev">>] }

\* sequences over S of length at most n
SeqsUpTo(S, n) == UNION { [1..k -> S] : k \in 0..n }

\* page.locator("a").all() once the page of src is rendered
Pages(src) == SeqsUpTo(SiteAnchors(src), MaxAnchors)

\* ---------------------------------------------------------------- state
VARIABLES
    sheet,       \* the spreadsheet: tab -> [exists, rows]
    clock,       \* the instant iso_now() reads
    runs,        \* runs of main() started so far
    pc,          \* where each process is in main()
    tab,         \* the tab of the _ensure call in progress
    seen,        \* main's set seen
    sources,     \* main's list sources
    idx,         \* position of the loop over sources (1-based)
    new_rows,    \* main's list new_rows
    newly_seen,  \* main's list newly_seen
    pre,         \* history: the spreadsheet when the run started
    seen0,       \* history: the set load_seen returned to the run
    extracted,   \* history: what scrape_generic returned, per source
    prev,        \* history: the extraction of the run that ended just before
    touched,     \* history: the run has made a call to the store
    lastE,       \* history: the extraction of the run that ended last
    lastWriter,  \* history: the process whose replace_new wrote rows last
    cur,         \* history: the process whose run started last
    nacc,        \* history: postings a run had accepted when it aborted
    log,         \* history: the store and extraction calls of the run, in order
    probe        \* a pure function under test: its arguments, then its result

locals == <<pc, tab, seen, sources, idx, new_rows, newly_seen>>
hist0 == <<pre, seen0, extracted, prev, touched, lastE, lastWriter, cur, nacc>>
hist == <<hist0, log, probe>>
vars == <<sheet, clock, runs, locals, hist>>

Tabs == {NEW_TAB, SEEN_TAB}

\* the run that ended last did not complete (or there was none)
NoRun == [ok |-> FALSE, e |-> << >>]

Ended == {"idle", "done", "abort_config", "abort_extract", "abort_store"}
Running(p) == pc[p] \notin Ended

\* the data rows of a tab: everything below row 1
DataRows(rows) == IF rows = << >> THEN << >> ELSE Tail(rows)

\* ws.row_values(1)
RowValues1(rows) == IF rows = << >> THEN << >> ELSE rows[1]

\* ws.update(A<at>, values): write the rows values at rows at.., keep the rest
Update(rows, at, values) ==
    LET last == at + Len(values) - 1
        n == IF Len(rows) > last THEN Len(rows) ELSE last
    IN  [i \in 1..n |->
            IF i >= at /\ i <= last THEN values[i - at + 1]
            ELSE IF i <= Len(rows) THEN rows[i] ELSE << >>]

\* ws.col_values(1)
ColValues1(rows) ==
    [i \in 1..Len(rows) |-> IF rows[i] = << >> THEN << >> ELSE rows[i][1]]

\* the row replace_new writes for r
NewRow(r) ==
    <<r.detected_at, r.company, r.title, r.location, r.url, r.source, r.key>>

\* mutant: append_seen writes the columns in the order of new_jobs
SeenRowKeyLast(r) ==
    <<r.detected_at, r.company, r.title, r.location, r.url, r.source, r.key>>

\* the row append_seen writes for r
SeenRow(r) ==
    <<r.key, r.detected_at, r.company, r.title, r.location, r.url, r.source>>

RECURSIVE FilterNewNoInsert(_, _, _)
\* mutant: the key of an accepted posting is not inserted into seen
FilterNewNoInsert(jobs, acc, s) ==
    IF jobs = << >> THEN [rows |-> acc, seen |-> s]
    ELSE LET j == WithKey(Head(jobs))
         IN  IF j.key \notin s
             THEN FilterNewNoInsert(Tail(jobs), Append(acc, j), s)
             ELSE FilterNewNoInsert(Tail(jobs), acc, s)

RECURSIVE FilterNewPrepend(_, _, _)
\* mutant: an accepted posting is inserted at the front of the list
FilterNewPrepend(jobs, acc, s) ==
    IF jobs = << >> THEN [rows |-> acc, seen |-> s]
    ELSE LET j == WithKey(Head(jobs))
         IN  IF j.key \notin s
             THEN FilterNewPrepend(Tail(jobs), <<j>> \o acc, s \cup {j.key})
             ELSE FilterNewPrepend(Tail(jobs), acc, s)

RECURSIVE FilterNew(_, _, _)
\* the loop over jobs in main: the accepted postings and the seen set after it
FilterNew(jobs, acc, s) ==
    IF jobs = << >> THEN [rows |-> acc, seen |-> s]
    ELSE LET j == WithKey(Head(jobs))
         IN  IF j.key \notin s
             THEN FilterNew(Tail(jobs), Append(acc, j), s \cup {j.key})
             ELSE FilterNew(Tail(jobs), acc, s)

\* a spreadsheet without the two tabs
EmptySheet == [t \in Tabs |-> [exists |-> FALSE, rows |-> << >>]]

\* no pure function is under test
NoProbe == [kind |-> "none", stage |-> "none", arg |-> << >>, out |-> << >>]

\* the state before the first run of main()
MainInit ==
    /\ sheet = EmptySheet
    /\ clock = 0
    /\ runs = 0
    /\ pc = [p \in Procs |-> "idle"]
    /\ tab = [p \in Procs |-> NEW_TAB]
    /\ seen = [p \in Procs |-> {}]
    /\ sources = [p \in Procs |-> << >>]
    /\ idx = [p \in Procs |-> 1]
    /\ new_rows = [p \in Procs |-> << >>]
    /\ newly_seen = [p \in Procs |-> << >>]
    /\ pre = [p \in Procs |-> EmptySheet]
    /\ seen0 = [p \in Procs |-> {}]
    /\ extracted = [p \in Procs |-> << >>]
    /\ prev = [p \in Procs |-> NoRun]
    /\ touched = [p \in Procs |-> FALSE]
    /\ lastE = NoRun
    /\ lastWriter = "none"
    /\ cur = "none"
    /\ nacc = [p \in Procs |-> 0]
    /\ log = [p \in Procs |-> << >>]

Init == MainInit /\ probe = NoProbe

\* f with the value v for the beginning run of p and for every process whose
\* run has ended: an ended process is gone, and so is what it held
Fresh(f, p, v) == [q \in Procs |-> IF q = p \/ ~Running(q) THEN v ELSE f[q]]

\* a run begins: every local of main is fresh
Begin(p, to) ==
    /\ ~Running(p)
    /\ runs < MaxRuns
    /\ runs' = runs + 1
    /\ clock' = clock + 1
    /\ pc' = [Fresh(pc, p, "idle") EXCEPT ![p] = to]
    /\ tab' = Fresh(tab, p, NEW_TAB)
    /\ seen' = Fresh(seen, p, {})
    /\ sources' = Fresh(sources, p, << >>)
    /\ idx' = Fresh(idx, p, 1)
    /\ new_rows' = Fresh(new_rows, p, << >>)
    /\ newly_seen' = Fresh(newly_seen, p, << >>)
    /\ pre' = [Fresh(pre, p, EmptySheet) EXCEPT ![p] = sheet]
    /\ seen0' = Fresh(seen0, p, {})
    /\ extracted' = Fresh(extracted, p, << >>)
    /\ prev' = [Fresh(prev, p, NoRun) EXCEPT ![p] = lastE]
    /\ touched' = Fresh(touched, p, FALSE)
    /\ lastE' = IF to = "abort_config" THEN NoRun ELSE lastE
    /\ cur' = p
    /\ nacc' = Fresh(nacc, p, 0)
    /\ log' = Fresh(log, p, << >>)
    /\ UNCHANGED <<sheet, lastWriter, probe>>

\* main ends with an exception: the process exits and its locals are gone
Abort(p, how) ==
    /\ pc' = [pc EXCEPT ![p] = how]
    /\ tab' = [tab EXCEPT ![p] = NEW_TAB]
    /\ seen' = [seen EXCEPT ![p] = {}]
    /\ sources' = [sources EXCEPT ![p] = << >>]
    /\ idx' = [idx EXCEPT ![p] = 1]
    /\ new_rows' = [new_rows EXCEPT ![p] = << >>]
    /\ newly_seen' = [newly_seen EXCEPT ![p] = << >>]
    /\ seen0' = [seen0 EXCEPT ![p] = {}]
    /\ extracted' = [extracted EXCEPT ![p] = << >>]
    /\ lastE' = NoRun
    /\ nacc' = [nacc EXCEPT ![p] = Len(new_rows[p])]
    /\ log' = [log EXCEPT ![p] = << >>]
    /\ UNCHANGED <<clock, runs, pre, prev, lastWriter, cur, probe>>

\* main: GCP_SA_KEY and SHEET_ID are read from the environment
ReadEnv(p) == Begin(p, "open")

\* main: GCP_SA_KEY or SHEET_ID is missing, or the key is not JSON
ReadEnvFails(p) == Begin(p, "abort_config")

\* SheetsStore.__init__: credentials, authorize, open_by_key
Open(p) ==
    /\ pc[p] = "open"
    /\ pc' = [pc EXCEPT ![p] = "ensure_ws"]
    /\ tab' = [tab EXCEPT ![p] = NEW_TAB]
    /\ touched' = [touched EXCEPT ![p] = TRUE]
    /\ UNCHANGED <<sheet, clock, runs, seen, sources, idx, new_rows, newly_seen,
                   pre, seen0, extracted, prev, lastE, lastWriter, cur, nacc,
                   log, probe>>

\* where __init__ goes on after _ensure(tab)
AfterEnsure(t) == IF t = NEW_TAB THEN "ensure_ws" ELSE "load_seen"
NextTab(t) == SEEN_TAB

\* _ensure: self.sh.worksheet(tab)
EnsureWorksheet(p) ==
    /\ pc[p] = "ensure_ws"
    /\ pc' = [pc EXCEPT ![p] =
                IF sheet[tab[p]].exists THEN "ensure_row1" ELSE "ensure_add"]
    /\ UNCHANGED <<sheet, clock, runs, tab, seen, sources, idx, new_rows,
                   newly_seen, hist>>

\* _ensure: self.sh.add_worksheet(title=tab, ...); a tab of that title that
\* another run added meanwhile makes the call fail
EnsureAdd(p) ==
    /\ pc[p] = "ensure_add"
    /\ IF sheet[tab[p]].exists
       THEN /\ Abort(p, "abort_store")
            /\ UNCHANGED <<sheet, touched>>
       ELSE /\ pc' = [pc EXCEPT ![p] = "ensure_row1"]
            /\ sheet' = [sheet EXCEPT ![tab[p]] = [exists |-> TRUE, rows |-> << >>]]
            /\ UNCHANGED <<clock, runs, tab, seen, sources, idx, new_rows,
                           newly_seen, hist>>

\* mutant: _ensure writes the header without looking at row 1
EnsureRow1Always(p) ==
    /\ pc[p] = "ensure_row1"
    /\ pc' = [pc EXCEPT ![p] = "ensure_update"]
    /\ UNCHANGED <<sheet, clock, runs, tab, seen, sources, idx, new_rows,
                   newly_seen, hist>>

\* _ensure: if not ws.row_values(1)
EnsureRow1(p) ==
    /\ pc[p] = "ensure_row1"
    /\ IF RowValues1(sheet[tab[p]].rows) = << >>
       THEN /\ pc' = [pc EXCEPT ![p] = "ensure_update"]
            /\ UNCHANGED tab
       ELSE /\ pc' = [pc EXCEPT ![p] = AfterEnsure(tab[p])]
            /\ tab' = [tab EXCEPT ![p] = NextTab(tab[p])]
    /\ UNCHANGED <<sheet, clock, runs, seen, sources, idx, new_rows, newly_seen,
                   hist>>

\* _ensure: ws.update("A1", [headers])
EnsureUpdate(p) ==
    /\ pc[p] = "ensure_update"
    /\ sheet' = [sheet EXCEPT ![tab[p]].rows = Update(@, 1, <<Headers(tab[p])>>)]
    /\ pc' = [pc EXCEPT ![p] = AfterEnsure(tab[p])]
    /\ tab' = [tab EXCEPT ![p] = NextTab(tab[p])]
    /\ UNCHANGED <<clock, runs, seen, sources, idx, new_rows, newly_seen, hist>>

\* mutant: load_seen skips the first data row too (col_values(1)[2:])
SeenKeysSkipTwo(rows) ==
    LET vals == DataRows(DataRows(ColValues1(rows)))
    IN  { vals[i] : i \in { k \in 1..Len(vals) : vals[k] # << >> } }

\* mutant: load_seen reads the second column, where new_jobs has no key either
SeenKeysSecondColumn(rows) ==
    LET vals == DataRows([i \in 1..Len(rows) |->
                    IF Len(rows[i]) < 2 THEN << >> ELSE rows[i][2]])
    IN  { vals[i] : i \in { k \in 1..Len(vals) : vals[k] # << >> } }

\* the set load_seen returns
SeenKeys(rows) ==
    LET vals == DataRows(ColValues1(rows))
    IN  { vals[i] : i \in { k \in 1..Len(vals) : vals[k] # << >> } }

\* store.load_seen()
LoadSeen(p) ==
    /\ pc[p] = "load_seen"
    /\ sheet[SEEN_TAB].exists
    /\ seen' = [seen EXCEPT ![p] = SeenKeys(sheet[SEEN_TAB].rows)]
    /\ seen0' = [seen0 EXCEPT ![p] = SeenKeys(sheet[SEEN_TAB].rows)]
    /\ pc' = [pc EXCEPT ![p] = "load_sources"]
    /\ log' = [log EXCEPT ![p] = Append(@, "load_seen")]
    /\ UNCHANGED <<sheet, clock, runs, tab, sources, idx, new_rows, newly_seen,
                   pre, extracted, prev, touched, lastE, lastWriter, cur, nacc,
                   probe>>

\* mutant: main leaves the loop after the first source
LoopPcFirstOnly(i, srcs) == IF i <= 1 THEN "scrape" ELSE "replace_clear"

\* the loop over sources goes on, or main leaves it for replace_new
LoopPc(i, srcs) == IF i <= Len(srcs) THEN "scrape" ELSE "replace_clear"

\* load_sources() returns the list of sources.yaml
LoadSources(p) ==
    /\ pc[p] = "load_sources"
    /\ \E srcs \in SourceLists :
          /\ sources' = [sources EXCEPT ![p] = srcs]
          /\ pc' = [pc EXCEPT ![p] = LoopPc(1, srcs)]
    /\ idx' = [idx EXCEPT ![p] = 1]
    /\ new_rows' = [new_rows EXCEPT ![p] = << >>]
    /\ newly_seen' = [newly_seen EXCEPT ![p] = << >>]
    /\ UNCHANGED <<sheet, clock, runs, tab, seen, hist>>

\* load_sources() raises: sources.yaml is missing or malformed
LoadSourcesFails(p) ==
    /\ pc[p] = "load_sources"
    /\ Abort(p, "abort_config")
    /\ UNCHANGED <<sheet, touched>>

\* one pass of the loop over sources: scrape_generic, then the loop over jobs
Scrape(p) ==
    /\ pc[p] = "scrape"
    /\ \E anchors \in Pages(sources[p][idx[p]]) :
          LET jobs == scrape_generic(anchors, sources[p][idx[p]], clock)
              res == FilterNew(jobs, new_rows[p], seen[p])
          IN  /\ new_rows' = [new_rows EXCEPT ![p] = res.rows]
              /\ newly_seen' = [newly_seen EXCEPT ![p] =
                                  FilterNew(jobs, newly_seen[p], seen[p]).rows]
              /\ seen' = [seen EXCEPT ![p] = res.seen]
              /\ extracted' = [extracted EXCEPT ![p] =
                                 Append(@, [src |-> sources[p][idx[p]], jobs |-> jobs])]
    /\ idx' = [idx EXCEPT ![p] = @ + 1]
    /\ pc' = [pc EXCEPT ![p] = LoopPc(idx[p] + 1, sources[p])]
    /\ log' = [log EXCEPT ![p] = Append(@, "scrape")]
    /\ UNCHANGED <<sheet, clock, runs, tab, sources, pre, seen0, prev, touched,
                   lastE, lastWriter, cur, nacc, probe>>

\* mutant: the exception of scrape_generic is handled by writing what the run
\* has accepted so far to the NewView before main ends
ScrapeFailsFlush(p) ==
    /\ pc[p] = "scrape"
    /\ Abort(p, "abort_extract")
    /\ sheet' = [sheet EXCEPT ![NEW_TAB].rows =
                    <<NEW_HEADERS>> \o [i \in 1..Len(new_rows[p]) |-> NewRow(new_rows[p][i])]]
    /\ UNCHANGED touched

\* scrape_generic raises (page.goto times out): main ends with the exception
ScrapeFails(p) ==
    /\ pc[p] = "scrape"
    /\ Abort(p, "abort_extract")
    /\ UNCHANGED <<sheet, touched>>

\* mutant: replace_new does not clear the tab
ReplaceClearSkipped(p) ==
    /\ pc[p] = "replace_clear"
    /\ sheet[NEW_TAB].exists
    /\ pc' = [pc EXCEPT ![p] = "replace_header"]
    /\ log' = [log EXCEPT ![p] = Append(@, "replace_new")]
    /\ UNCHANGED <<sheet, clock, runs, tab, seen, sources, idx, new_rows,
                   newly_seen, hist0, probe>>

\* replace_new: ws.clear()
ReplaceClear(p) ==
    /\ pc[p] = "replace_clear"
    /\ sheet[NEW_TAB].exists
    /\ sheet' = [sheet EXCEPT ![NEW_TAB].rows = << >>]
    /\ pc' = [pc EXCEPT ![p] = "replace_header"]
    /\ log' = [log EXCEPT ![p] = Append(@, "replace_new")]
    /\ UNCHANGED <<clock, runs, tab, seen, sources, idx, new_rows, newly_seen,
                   hist0, probe>>

\* replace_new: ws.update("A1", [NEW_HEADERS]); if not rows: return
ReplaceHeader(p) ==
    /\ pc[p] = "replace_header"
    /\ sheet' = [sheet EXCEPT ![NEW_TAB].rows = Update(@, 1, <<NEW_HEADERS>>)]
    /\ pc' = [pc EXCEPT ![p] =
                IF new_rows[p] = << >> THEN "append" ELSE "replace_values"]
    /\ UNCHANGED <<clock, runs, tab, seen, sources, idx, new_rows, newly_seen,
                   hist>>

\* mutant: replace_new appends the rows below the last row of the tab
ReplaceValuesAppend(p) ==
    /\ pc[p] = "replace_values"
    /\ sheet' = [sheet EXCEPT ![NEW_TAB].rows =
                    @ \o [i \in 1..Len(new_rows[p]) |-> NewRow(new_rows[p][i])]]
    /\ pc' = [pc EXCEPT ![p] = "append"]
    /\ lastWriter' = p
    /\ UNCHANGED <<clock, runs, tab, seen, sources, idx, new_rows, newly_seen,
                   pre, seen0, extracted, prev, touched, lastE, cur, nacc,
                   log, probe>>

\* replace_new: ws.update("A2", values)
ReplaceValues(p) ==
    /\ pc[p] = "replace_values"
    /\ sheet' = [sheet EXCEPT ![NEW_TAB].rows =
                    Update(@, 2, [i \in 1..Len(new_rows[p]) |-> NewRow(new_rows[p][i])])]
    /\ pc' = [pc EXCEPT ![p] = "append"]
    /\ lastWriter' = p
    /\ UNCHANGED <<clock, runs, tab, seen, sources, idx, new_rows, newly_seen,
                   pre, seen0, extracted, prev, touched, lastE, cur, nacc,
                   log, probe>>

\* mutant: append_seen writes the rows at A2 (ws.update) instead of appending
AppendRowsAtA2(rows, values) == Update(rows, 2, values)

\* ws.append_rows(values): the rows go below the last row of the tab
AppendRows(rows, values) == rows \o values

\* store.append_seen(newly_seen), after which main returns
AppendSeen(p) ==
    /\ pc[p] = "append"
    /\ IF newly_seen[p] = << >>
       THEN UNCHANGED sheet
       ELSE /\ sheet[SEEN_TAB].exists
            /\ sheet' = [sheet EXCEPT ![SEEN_TAB].rows =
                           AppendRows(@, [i \in 1..Len(newly_seen[p]) |->
                                             SeenRow(newly_seen[p][i])])]
    /\ pc' = [pc EXCEPT ![p] = "done"]
    /\ lastE' = [ok |-> TRUE, e |-> extracted[p]]
    /\ log' = [log EXCEPT ![p] = Append(@, "append_seen")]
    /\ UNCHANGED <<clock, runs, tab, seen, sources, idx, new_rows, newly_seen,
                   pre, seen0, extracted, prev, touched, lastWriter, cur, nacc,
                   probe>>

\* the positions of main at which the next statement is a call to the store
StoreCall(p) ==
    \/ pc[p] \in {"open", "ensure_ws", "ensure_add", "ensure_row1",
                  "ensure_update", "load_seen", "replace_clear",
                  "replace_header", "replace_values"}
    \/ pc[p] = "append" /\ newly_seen[p] # << >>

\* a call to the store raises (gspread APIError, auth failure, no such
\* spreadsheet): it has no effect and main ends with the exception
StoreError(p) ==
    /\ StoreCall(p)
    /\ Abort(p, "abort_store")
    /\ touched' = [touched EXCEPT ![p] = TRUE]
    /\ UNCHANGED sheet

Step(p) ==
    \/ Open(p)
    \/ EnsureWorksheet(p)
    \/ EnsureAdd(p)
    \/ EnsureRow1(p)
    \/ EnsureUpdate(p)
    \/ LoadSeen(p)
    \/ LoadSources(p)
    \/ LoadSourcesFails(p)
    \/ Scrape(p)
    \/ ScrapeFails(p)
    \/ ReplaceClear(p)
    \/ ReplaceHeader(p)
    \/ ReplaceValues(p)
    \/ AppendSeen(p)
    \/ StoreError(p)

\* runs may overlap: nothing keeps two processes from executing main() at once
Next ==
    \E p \in Procs : ReadEnv(p) \/ ReadEnvFails(p) \/ Step(p)

Spec == Init /\ [][Next]_vars

\* runs one after another: a run starts only when no other run is in progress
NoneRunning == \A q \in Procs : ~Running(q)

NextSerial ==
    \E p \in Procs :
        \/ NoneRunning /\ ReadEnv(p)
        \/ NoneRunning /\ ReadEnvFails(p)
        \/ Step(p)

SpecSerial == Init /\ [][NextSerial]_vars

\* ------------------------------------------------------------- claims
\* the data rows of the two tabs
Ledger == DataRows(sheet[SEEN_TAB].rows)
NewView == DataRows(sheet[NEW_TAB].rows)

\* the keys in the first column of ledger rows
LedgerKeys(rows) == { rows[i][1] : i \in 1..Len(rows) }

\* the keys of keyed postings
KeysOf(rows) == { rows[i].key : i \in 1..Len(rows) }

RECURSIVE Flat(_)
\* the postings of a run in source order, then extraction order
Flat(ex) == IF ex = << >> THEN << >> ELSE Head(ex).jobs \o Flat(Tail(ex))

\* the keys of postings that carry no key yet
JobKeys(jobs) == { make_key(jobs[i]) : i \in 1..Len(jobs) }

\* the five identity fields of a posting
Identity(j) == <<j.company, j.title, j.location, j.url, j.source>>

NewRowsOf(rows) == [i \in 1..Len(rows) |-> NewRow(rows[i])]
SeenRowsOf(rows) == [i \in 1..Len(rows) |-> SeenRow(rows[i])]

\* the run of p has accepted everything it will accept
PastLoop(p) == pc[p] \in {"replace_clear", "replace_header", "replace_values",
                          "append", "done"}

\* C1: with runs one after another, no key is in more than one data row of
\* the Ledger.
C1_LedgerKeysUnique ==
    \A i, j \in 1..Len(Ledger) : i # j => Ledger[i][1] # Ledger[j][1]

\* C1 witness: a run completed that met a key the Ledger held already and
\* appended another one.
C1_Witness ==
    \E p \in Procs :
        /\ pc[p] = "done"
        /\ newly_seen[p] # << >>
        /\ JobKeys(Flat(extracted[p])) \cap seen0[p] # {}
        /\ Len(Ledger) >= 2

\* C2: within one run each distinct key is accepted at most once: the keys
\* of the accepted postings are pairwise distinct, they are exactly the
\* extracted keys that the loaded seen set lacked, and seen holds them all;
\* two extracted postings of one identity from an empty seen set give one
\* accepted posting and a seen set of one key.
C2_AcceptedOnce ==
    \A p \in Procs :
        LET E == Flat(extracted[p])
        IN  /\ \A i, j \in 1..Len(new_rows[p]) :
                  i # j => new_rows[p][i].key # new_rows[p][j].key
            /\ KeysOf(new_rows[p]) = JobKeys(E) \ seen0[p]
            /\ seen[p] = seen0[p] \cup JobKeys(E)
            /\ (seen0[p] = {} /\ Len(E) = 2 /\ Identity(E[1]) = Identity(E[2]))
                  => (Len(new_rows[p]) = 1 /\ Cardinality(seen[p]) = 1)

\* C2 witness: from an empty seen set a run extracted the same identity from
\* two sources and accepted one posting.
C2_Witness ==
    \E p \in Procs :
        LET E == Flat(extracted[p])
        IN  /\ PastLoop(p)
            /\ seen0[p] = {}
            /\ Len(E) = 2
            /\ Identity(E[1]) = Identity(E[2])
            /\ Len(new_rows[p]) = 1

\* the extraction results without the instants of detection
Identities(ex) ==
    [k \in 1..Len(ex) |->
        [src |-> ex[k].src,
         jobs |-> [i \in 1..Len(ex[k].jobs) |-> Identity(ex[k].jobs[i])]]]

\* the run of p completed, right after a completed run of the same extraction
Repeated(p) ==
    /\ pc[p] = "done"
    /\ cur = p
    /\ prev[p].ok
    /\ Identities(prev[p].e) = Identities(extracted[p])

\* C3: a run that follows a completed run and extracts the same postings
\* accepts nothing, leaves the Ledger rows as they were and leaves the
\* NewView without data rows.
C3_SecondRunIdle ==
    \A p \in Procs :
        Repeated(p) =>
            /\ new_rows[p] = << >>
            /\ sheet[SEEN_TAB] = pre[p][SEEN_TAB]
            /\ NewView = << >>

\* C3 witness: such a second run, of an extraction that has postings.
C3_Witness ==
    \E p \in Procs : Repeated(p) /\ Flat(extracted[p]) # << >>

\* C4: once replace_new has returned, the data rows of the NewView are the
\* rows of that run's new_rows and nothing else, below the header row.
C4_NewViewReplaced ==
    \A p \in Procs :
        (cur = p /\ pc[p] \in {"append", "done"}) =>
            /\ NewView = NewRowsOf(new_rows[p])
            /\ RowValues1(sheet[NEW_TAB].rows) = NEW_HEADERS

\* C4 witness: a run that accepted nothing completed on a NewView that held
\* data rows, and left it with the header row only.
C4_Witness ==
    \E p \in Procs :
        /\ cur = p
        /\ pc[p] = "done"
        /\ new_rows[p] = << >>
        /\ Len(pre[p][NEW_TAB].rows) > 1
        /\ sheet[NEW_TAB].rows = <<NEW_HEADERS>>

\* positions of E whose key is not in S and occurs at no earlier position
FirstUnseen(E, S) ==
    { i \in 1..Len(E) :
        /\ make_key(E[i]) \notin S
        /\ \A j \in 1..(i - 1) : make_key(E[j]) # make_key(E[i]) }

RECURSIVE Pick(_, _, _)
\* the subsequence of E at the positions A, from position i on
Pick(E, A, i) ==
    IF i > Len(E) THEN << >>
    ELSE (IF i \in A THEN <<WithKey(E[i])>> ELSE << >>) \o Pick(E, A, i + 1)

\* C5: the sources are extracted in configuration order, new_rows is the
\* subsequence of the accepted postings of the concatenated extraction
\* results, and a completed run wrote the NewView rows and appended the
\* Ledger rows in that order.
C5_OrderPreserved ==
    \A p \in Procs :
        LET E == Flat(extracted[p])
        IN  /\ \A k \in 1..Len(extracted[p]) : extracted[p][k].src = sources[p][k]
            /\ new_rows[p] = Pick(E, FirstUnseen(E, seen0[p]), 1)
            /\ (cur = p /\ pc[p] = "done") =>
                  /\ NewView = NewRowsOf(new_rows[p])
                  /\ Ledger = DataRows(pre[p][SEEN_TAB].rows) \o SeenRowsOf(new_rows[p])

\* C5 witness: the first source gave two postings, the second one, all three
\* were accepted, and the run completed.
C5_Witness ==
    \E p \in Procs :
        /\ pc[p] = "done"
        /\ Len(extracted[p]) = 2
        /\ Len(extracted[p][1].jobs) = 2
        /\ Len(extracted[p][2].jobs) = 1
        /\ Len(new_rows[p]) = 3

\* C6: a run that ended because scrape_generic raised wrote neither tab: the
\* data rows of NewView and Ledger are those of the start of the run.
C6_ExtractionErrorWritesNothing ==
    \A p \in Procs :
        (cur = p /\ pc[p] = "abort_extract") =>
            /\ NewView = DataRows(pre[p][NEW_TAB].rows)
            /\ Ledger = DataRows(pre[p][SEEN_TAB].rows)

\* C6 witness: the run had accepted a posting of an earlier source when the
\* extraction failed, and the NewView held data rows.
C6_Witness ==
    \E p \in Procs :
        /\ cur = p
        /\ pc[p] = "abort_extract"
        /\ nacc[p] >= 1
        /\ Len(pre[p][NEW_TAB].rows) > 1
        /\ NewView = DataRows(pre[p][NEW_TAB].rows)

\* the run of p has ended, completed or aborted
RunEnded(p) == pc[p] \in {"done", "abort_config", "abort_extract", "abort_store"}

\* C7 (as claimed): when a run has ended, either the NewView holds its
\* new_rows and the Ledger gained its rows, or the data rows of both tabs are
\* those of the start of the run.
C7_AllOrNothing ==
    \A p \in Procs :
        (cur = p /\ RunEnded(p)) =>
            \/ /\ pc[p] = "done"
               /\ NewView = NewRowsOf(new_rows[p])
               /\ Ledger = DataRows(pre[p][SEEN_TAB].rows) \o SeenRowsOf(new_rows[p])
            \/ /\ NewView = DataRows(pre[p][NEW_TAB].rows)
               /\ Ledger = DataRows(pre[p][SEEN_TAB].rows)

\* C8 (as claimed): a run that ended on a configuration error has made no
\* call to the store and the spreadsheet is as it was when the run started.
C8_ConfigErrorBeforeStore ==
    \A p \in Procs :
        pc[p] = "abort_config" =>
            /\ ~touched[p]
            /\ cur = p => sheet = pre[p]

\* the number of Ledger rows of key k
LedgerCount(k) == Cardinality({ i \in 1..Len(Ledger) : Ledger[i][1] = k })

\* both runs completed, both extracted key k, and neither had loaded it
BothUnseen(p, q, k) ==
    /\ p # q
    /\ pc[p] = "done"
    /\ pc[q] = "done"
    /\ k \notin seen0[p]
    /\ k \notin seen0[q]
    /\ k \in JobKeys(Flat(extracted[p]))
    /\ k \in JobKeys(Flat(extracted[q]))

\* s is a prefix of t
IsPrefix(s, t) == Len(s) <= Len(t) /\ \A i \in 1..Len(s) : t[i] = s[i]

\* C9 (as claimed): two runs that both extract a key neither had loaded both
\* accept and append it, and the NewView holds the batch written last.
C9_NewViewIsLastBatch ==
    \A p, q \in Procs :
        \A k \in JobKeys(Flat(extracted[p])) :
            (BothUnseen(p, q, k) /\ lastWriter = p) =>
                /\ LedgerCount(k) >= 2
                /\ NewView = NewRowsOf(new_rows[p])

\* C9 (amended): two runs that both extract a key neither had loaded both
\* accept and append it, so the Ledger holds two rows of that key; the
\* NewView begins with the batch whose rows were written last.
C9_DuplicateLedgerRows ==
    \A p, q \in Procs :
        \A k \in JobKeys(Flat(extracted[p])) :
            BothUnseen(p, q, k) =>
                /\ k \in KeysOf(new_rows[p])
                /\ k \in KeysOf(newly_seen[q])
                /\ LedgerCount(k) >= 2
                /\ lastWriter = p => IsPrefix(NewRowsOf(new_rows[p]), NewView)

\* C9 witness: two overlapping runs have appended the same key.
C9_Witness ==
    \E p, q \in Procs :
        \E k \in JobKeys(Flat(extracted[p])) :
            BothUnseen(p, q, k) /\ LedgerCount(k) = 2

\* C10: no step removes or changes a data row of the Ledger: the rows before
\* the step are a prefix of the rows after it, so the keys only grow.
C10_LedgerAppendOnly ==
    [][/\ IsPrefix(Ledger, Ledger')
       /\ LedgerKeys(Ledger) \subseteq LedgerKeys(Ledger')]_vars

\* C10 witness: a run that started on a Ledger with data rows completed and
\* appended to it.
C10_Witness ==
    \E p \in Procs :
        /\ pc[p] = "done"
        /\ Len(DataRows(pre[p][SEEN_TAB].rows)) >= 1
        /\ newly_seen[p] # << >>
        /\ Len(Ledger) > Len(DataRows(pre[p][SEEN_TAB].rows))

\* ------------------------------------------------- make_key on its own
mainVars == <<sheet, clock, runs, locals, hist0, log>>

\* the values a field of a posting may have; "|" is the delimiter of make_key
KeyCompanies == { <<"a">>, <<"a", "|">> }
KeyTitles == { << >>, <<"b">>, <<"|">> }
KeyLocations == { << >>, <<"b">> }
KeyUrls == { <<"u">>, <<"v">> }
KeySources == { <<"s">>, <<"t">> }

\* the postings make_key is applied to, detected at the instant now
KeyJobs(now) ==
    { [detected_at |-> iso_now(now), source |-> s, company |-> c, title |-> t,
       location |-> l, url |-> u] :
        c \in KeyCompanies, t \in KeyTitles, l \in KeyLocations,
        u \in KeyUrls, s \in KeySources }

\* two postings, the second detected at the same or at a later instant
InitKey ==
    /\ MainInit
    /\ \E j1 \in KeyJobs(0), j2 \in KeyJobs(0) \cup KeyJobs(1) :
          probe = [kind |-> "key", stage |-> "arg", arg |-> <<j1, j2>>, out |-> << >>]

\* make_key on both postings, then the loop over jobs of main on the pair,
\* from an empty seen set
ApplyMakeKey ==
    /\ probe.kind = "key"
    /\ probe.stage = "arg"
    /\ probe' = [probe EXCEPT
                   !.stage = "out",
                   !.out = [k1 |-> make_key(probe.arg[1]),
                            k2 |-> make_key(probe.arg[2]),
                            b1 |-> Base(probe.arg[1]),
                            b2 |-> Base(probe.arg[2]),
                            acc |-> FilterNew(probe.arg, << >>, {}).rows]]
    /\ UNCHANGED mainVars

NextKey == ApplyMakeKey

SpecKey == InitKey /\ [][NextKey]_vars

\* make_key has been applied to the pair
KeyDone == probe.kind = "key" /\ probe.stage = "out"

\* the identity fields in which two postings differ
DiffFields(j1, j2) == { i \in 1..5 : Identity(j1)[i] # Identity(j2)[i] }

\* C11: two postings of the same five identity fields get the same key
\* whatever their detected_at, and two postings that differ in exactly one
\* of the five fields have different canonical strings.
C11_KeyDeterminism ==
    KeyDone =>
        LET j1 == probe.arg[1]
            j2 == probe.arg[2]
        IN  /\ Identity(j1) = Identity(j2) => probe.out.k1 = probe.out.k2
            /\ Cardinality(DiffFields(j1, j2)) = 1 => probe.out.b1 # probe.out.b2

\* C11 witness: the same identity detected at two instants got one key.
C11_Witness ==
    /\ KeyDone
    /\ Identity(probe.arg[1]) = Identity(probe.arg[2])
    /\ probe.arg[1].detected_at # probe.arg[2].detected_at
    /\ probe.out.k1 = probe.out.k2

\* no identity field of j holds the delimiter
NoDelimiter(j) ==
    \A i \in 1..5 : \A n \in 1..Len(Identity(j)[i]) : Identity(j)[i][n] # "|"

\* C12: postings without the delimiter in any field and of different
\* identities have different canonical strings and are both accepted; two
\* postings of the same canonical string have the same key, and the second is
\* dropped by the diff.
C12_DelimiterLimitation ==
    KeyDone =>
        LET j1 == probe.arg[1]
            j2 == probe.arg[2]
        IN  /\ (NoDelimiter(j1) /\ NoDelimiter(j2) /\ Identity(j1) # Identity(j2))
                  => (probe.out.b1 # probe.out.b2 /\ Len(probe.out.acc) = 2)
            /\ probe.out.b1 = probe.out.b2
                  => (probe.out.k1 = probe.out.k2 /\ Len(probe.out.acc) = 1)

\* C12 witness: two postings of different identities, one with the delimiter
\* in a field, have one canonical string, and only the first was accepted.
C12_Witness ==
    /\ KeyDone
    /\ Identity(probe.arg[1]) # Identity(probe.arg[2])
    /\ ~NoDelimiter(probe.arg[1])
    /\ probe.out.b1 = probe.out.b2
    /\ Len(probe.out.acc) = 1
    /\ probe.out.acc[1].title = probe.arg[1].title

\* the keys in the last column of new_jobs rows
NewViewKeys(rows) == { rows[i][7] : i \in 1..Len(rows) }

\* C13: a completed run that loaded S and extracted E accepted exactly the
\* first occurrence in E of each key not in S; the Ledger gained one row per
\* such key below the rows it had and no other row; its keys are S united
\* with the keys of E; every key of the NewView is in the Ledger; with S
\* empty and one extracted posting the batch is that record and the Ledger
\* gained one row, of its key.
C13_RunResult ==
    \A p \in Procs :
        (cur = p /\ pc[p] = "done") =>
            LET E == Flat(extracted[p])
                S == seen0[p]
                New == JobKeys(E) \ S
                old == DataRows(pre[p][SEEN_TAB].rows)
            IN  /\ new_rows[p] = Pick(E, FirstUnseen(E, S), 1)
                /\ Len(new_rows[p]) = Cardinality(New)
                /\ IsPrefix(old, Ledger)
                /\ Len(Ledger) = Len(old) + Cardinality(New)
                /\ { Ledger[i][1] : i \in (Len(old) + 1)..Len(Ledger) } = New
                /\ \A k \in New : LedgerCount(k) = 1
                /\ LedgerKeys(Ledger) = S \cup JobKeys(E)
                /\ NewViewKeys(NewView) \subseteq LedgerKeys(Ledger)
                /\ (S = {} /\ Len(E) = 1) =>
                      /\ new_rows[p] = <<WithKey(E[1])>>
                      /\ Ledger = old \o <<SeenRow(WithKey(E[1]))>>

\* C13 witness: a completed run had loaded keys, extracted a key it had
\* loaded, a key twice and a key it accepted.
C13_Witness ==
    \E p \in Procs :
        LET E == Flat(extracted[p])
        IN  /\ cur = p
            /\ pc[p] = "done"
            /\ JobKeys(E) \cap seen0[p] # {}
            /\ Len(E) > Cardinality(JobKeys(E))
            /\ new_rows[p] # << >>
            /\ NewViewKeys(NewView) # {}

\* how many times call x is in the log L of a run
Calls(L, x) == Cardinality({ i \in 1..Len(L) : L[i] = x })

\* C14: in one run load_seen is called once, first, before any extraction;
\* replace_new and append_seen are each called at most once, replace_new only
\* after scrape_generic has returned for every source of the list, append_seen
\* right after replace_new, and nothing is called after them.
C14_StoreAccessOrder ==
    \A p \in Procs :
        LET L == log[p]
        IN  /\ Calls(L, "load_seen") <= 1
            /\ L # << >> => L[1] = "load_seen"
            /\ Calls(L, "replace_new") <= 1
            /\ Calls(L, "append_seen") <= 1
            /\ \A i \in 1..Len(L) :
                  /\ L[i] = "replace_new" =>
                        /\ i = Len(sources[p]) + 2
                        /\ \A k \in 2..(i - 1) : L[k] = "scrape"
                        /\ Len(extracted[p]) = Len(sources[p])
                        /\ \A k \in 1..Len(sources[p]) :
                              extracted[p][k].src = sources[p][k]
                        /\ i >= Len(L) - 1
                  /\ L[i] = "append_seen" =>
                        /\ i = Len(L)
                        /\ i > 1
                        /\ L[i - 1] = "replace_new"
            /\ pc[p] = "done" =>
                  /\ L # << >>
                  /\ L[Len(L)] = "append_seen"
                  /\ Calls(L, "load_seen") = 1

\* C14 witness: a run over two sources has returned from append_seen.
C14_Witness ==
    \E p \in Procs :
        /\ pc[p] = "done"
        /\ Len(sources[p]) = 2
        /\ log[p] = <<"load_seen", "scrape", "scrape", "replace_new", "append_seen">>

\* the run of p has written the header row of new_jobs in replace_new
WroteNewHeader(p) == pc[p] \in {"replace_values", "append", "done"}

\* C15 as stated: a run that found the header row of new_jobs present when
\* it started does not write it again.
C15_HeaderNeverRewritten ==
    \A p \in Procs :
        RowValues1(pre[p][NEW_TAB].rows) # << >> => ~WroteNewHeader(p)

\* a step in which p writes the header row of tab t
WritesHeader(p, t) ==
    \/ pc[p] = "ensure_update" /\ tab[p] = t /\ pc'[p] = AfterEnsure(t)
    \/ /\ pc[p] = "replace_header"
       /\ t = NEW_TAB
       /\ pc'[p] \in {"replace_values", "append"}

\* C15, amended, for runs one after another: _ensure writes a header only
\* into an empty row 1, so a run that found the header of seen_keys present
\* never writes it and row 1 of seen_keys never changes once it is written;
\* replace_new empties row 1 of new_jobs and writes the header again each
\* time it is called; no other step changes row 1 of a tab.
C15_HeaderWrites ==
    [][ \A t \in Tabs :
           LET r0 == RowValues1(sheet[t].rows)
               r1 == RowValues1(sheet'[t].rows)
               written == \E p \in Procs : WritesHeader(p, t)
           IN  /\ written =>
                     /\ r0 = << >>
                     /\ r1 = Headers(t)
                     /\ t = SEEN_TAB =>
                           \A p \in Procs :
                               WritesHeader(p, t) => RowValues1(pre[p][t].rows) = << >>
               /\ r1 # r0 =>
                     \/ written
                     \/ /\ t = NEW_TAB
                        /\ r1 = << >>
                        /\ \E p \in Procs : pc[p] = "replace_clear"
               /\ \A p \in Procs :
                     (t = NEW_TAB /\ pc[p] = "replace_clear"
                          /\ pc'[p] = "replace_header") => r1 = << >>
               /\ \A p \in Procs :
                     (t = NEW_TAB /\ pc[p] = "replace_header"
                          /\ pc'[p] \in {"replace_values", "append"}) => r1 = NEW_HEADERS
      ]_vars

\* C15 witness: the second of two runs found both header rows present, wrote
\* the header of new_jobs again in replace_new and has returned.
C15_Witness ==
    \E p \in Procs :
        /\ runs = 2
        /\ cur = p
        /\ pc[p] = "done"
        /\ RowValues1(pre[p][NEW_TAB].rows) = NEW_HEADERS
        /\ RowValues1(pre[p][SEEN_TAB].rows) = SEEN_HEADERS
        /\ RowValues1(sheet[NEW_TAB].rows) = NEW_HEADERS

\* ------------------------------------------------- scrape_generic alone
\* the anchors a rendered page of src may hold: postings, the same href with
\* another text or with blanks around it, an empty or blank text, a text
\* shorter than 6, an empty or blank href, an href that is no posting
ScrapeAnchors(src) ==
    IF src.name = "uber" THEN
        { [href |-> <<"https://jobs.uber.com", "/1">>, text |-> <<"Engineer">>],
          [href |-> <<"https://jobs.uber.com", "/1", WS>>, text |-> <<WS, "Analyst">>],
          [href |-> <<"https://www.uber.com", "/careers/", "2">>, text |-> <<"Analyst", WS>>],
          [href |-> <<"https://jobs.uber.com", "/2">>, text |-> << >>],
          [href |-> <<"https://jobs.uber.com", "/2">>, text |-> <<WS, "Dev">>],
          [href |-> << >>, text |-> <<"Engineer">>],
          [href |-> <<WS>>, text |-> <<"Engineer">>] }
    ELSE IF src.name = "hellofresh" THEN
        { [href |-> <<"/job/", "7">>, text |-> <<"Engineer">>],
          [href |-> <<"/job/", "7">>, text |-> <<"Analyst">>],
          [href |-> <<"https://careers.hellofresh.com", "/job/", "7">>, text |-> <<"Engineer">>],
          [href |-> <<"/job/", "8">>, text |-> <<WS>>],
          [href |-> <<"/search-results", "/job/", "7">>, text |-> <<"Engineer">>],
          [href |-> << >>, text |-> <<"Analyst">>] }
    ELSE
        { [href |-> <<"/jobs/", "9">>, text |-> <<"Analyst", WS>>],
          [href |-> <<"/jobs/", "9">>, text |-> <<"Engineer">>],
          [href |-> <<"https://jobs.booking.com", "/jobs/", "9">>, text |-> <<"Analyst">>],
          [href |-> <<"/jobs/", "9">>, text |-> <<"Dev">>],
          [href |-> <<"/careers/">>, text |-> <<"Engineer">>],
          [href |-> << >>, text |-> << >>] }

\* the longest page of the probe
MaxScrapeAnchors == 3

ScrapeSources == { UberA, Hello, Booking }

InitScrape ==
    /\ MainInit
    /\ \E src \in ScrapeSources :
          \E anchors \in SeqsUpTo(ScrapeAnchors(src), MaxScrapeAnchors) :
              probe = [kind |-> "scrape", stage |-> "arg",
                       arg |-> [src |-> src, anchors |-> anchors], out |-> << >>]

\* scrape_generic on the page, then main's loop over the jobs it returns
ApplyScrape ==
    /\ probe.kind = "scrape"
    /\ probe.stage = "arg"
    /\ LET src == probe.arg.src
           anchors == probe.arg.anchors
           jobs == scrape_generic(anchors, src, clock)
       IN  probe' = [probe EXCEPT
                       !.stage = "out",
                       !.out = [each |-> [i \in 1..Len(anchors) |->
                                             Candidate(anchors[i], src, clock)],
                                cands |-> Candidates(anchors, src, clock),
                                jobs |-> jobs,
                                rows |-> FilterNew(jobs, << >>, {}).rows]]
    /\ UNCHANGED mainVars

NextScrape == ApplyScrape

SpecScrape == InitScrape /\ [][NextScrape]_vars

ScrapeDone == probe.kind = "scrape" /\ probe.stage = "out"

\* the last position of cands that holds url u
LastWithUrl(cands, u) ==
    CHOOSE i \in 1..Len(cands) :
        /\ cands[i].url = u
        /\ \A k \in (i + 1)..Len(cands) : cands[k].url # u

Malformed(j) == j.title = << >> \/ j.url = << >>

\* the anchor is skipped by scrape_generic before its site filter
Skipped(a) == a.href = << >> \/ StrLen(Strip(a.text)) < 6

NotSkipped(a) == ~Skipped(a)

\* C17 as stated: an anchor that is a posting of its site and whose title or
\* url is empty after trimming reaches the diff as a record with that empty
\* field.
C17_MalformedPassedThrough ==
    ScrapeDone =>
        \A i \in 1..Len(probe.arg.anchors) :
            LET c == CandidateNoSkip(probe.arg.anchors[i], probe.arg.src, clock)
            IN  (c # << >> /\ Malformed(c[1])) =>
                    \E k \in 1..Len(probe.out.rows) :
                        Identity(probe.out.rows[k]) = Identity(c[1])

\* C17, amended: an anchor with an empty href or a trimmed text shorter than 6
\* characters, an empty one included, yields no record and leaves what
\* scrape_generic returns as it is without that anchor; every record that
\* scrape_generic builds, returns, and that reaches the key and the diff has
\* a trimmed title of at least 6 characters and a trimmed, non-empty url.
C17_MalformedSkipped ==
    ScrapeDone =>
        LET A == probe.arg.anchors
            kept == SelectSeq(A, NotSkipped)
            Well(j) == /\ ~Malformed(j)
                       /\ StrLen(j.title) >= 6
                       /\ j.title = Strip(j.title)
                       /\ j.url = Strip(j.url)
        IN  /\ \A i \in 1..Len(A) : Skipped(A[i]) => probe.out.each[i] = << >>
            /\ probe.out.jobs = scrape_generic(kept, probe.arg.src, clock)
            /\ \A n \in 1..Len(probe.out.cands) : Well(probe.out.cands[n])
            /\ \A n \in 1..Len(probe.out.jobs) : Well(probe.out.jobs[n])
            /\ \A n \in 1..Len(probe.out.rows) :
                  /\ Well(probe.out.rows[n])
                  /\ probe.out.rows[n].key = make_key(probe.out.rows[n])
            /\ JobKeys(probe.out.rows) = JobKeys(probe.out.jobs)

\* C17 witness: the page held a posting with an empty or blank text next to a
\* posting that was returned.
C17_Witness ==
    /\ ScrapeDone
    /\ \E i \in 1..Len(probe.arg.anchors) :
          LET c == CandidateNoSkip(probe.arg.anchors[i], probe.arg.src, clock)
          IN  c # << >> /\ c[1].title = << >>
    /\ probe.out.rows # << >>
    /\ Len(probe.out.rows) < Len(probe.arg.anchors)

====
